---- MODULE Spec2Model ----
(***************************************************************************)
(* Workflow execution engine: the task executor registry, the sequential   *)
(* task loop, the execution-record lifecycle and the HTTP dispatch layer   *)
(* (app/workers, app/services, app/api/v1).                                *)
(***************************************************************************)
EXTENDS Integers, Sequences, FiniteSets, TLC

VARIABLES
    workflows,   \* table workflows: id -> row
    tasks,       \* table tasks: set of rows, each with its workflow_id
    executions,  \* table workflow_executions (committed rows): id -> row
    runs,        \* execute requests accepted so far, each with its coroutine state
    exIssued,    \* number of ids issued (uuid4: never reused)
    now,         \* datetime.utcnow(), in half seconds
    response     \* the HTTP response the current step sends, if any

vars == <<workflows, tasks, executions, runs, exIssued, now, response>>

----------------------------------------------------------------------------
(* Bounds of the model *)

MaxRuns == 1
MaxClock == 1

----------------------------------------------------------------------------
(* Python / JSON values.  A value is a record with a single field naming   *)
(* its type, so that isinstance() is a test on the field name.  A str is a *)
(* sequence of chunks: an f-string is the sequence of its literal text and *)
(* its interpolated values.                                                *)

None == [none |-> TRUE]
Str(s) == [str |-> <<s>>]
FStr(text, arg) == [str |-> <<text, arg>>]
Bool(b) == [bool |-> b]
Num(n) == [int |-> n]
Dict(m) == [dict |-> m]
List(s) == [list |-> s]

IsNone(x) == DOMAIN x = {"none"}
IsStr(x) == DOMAIN x = {"str"}
IsBool(x) == DOMAIN x = {"bool"}
IsInt(x) == DOMAIN x = {"int"}
IsDict(x) == DOMAIN x = {"dict"}
IsList(x) == DOMAIN x = {"list"}

EmptyMap == [k \in {} |-> None]
EmptyDict == Dict(EmptyMap)

\* d[k] = v
Put(m, k, v) == [x \in DOMAIN m \cup {k} |-> IF x = k THEN v ELSE m[x]]

\* d.get(k, default) on a mapping of the model
GetOr(m, k, default) == IF k \in DOMAIN m THEN m[k] ELSE default

\* config.get(k, default) on a dict value
DictGet(d, k, default) == GetOr(d.dict, k, default)

\* bool(x)
Truthy(x) ==
    CASE IsNone(x) -> FALSE
      [] IsBool(x) -> x.bool
      [] IsInt(x)  -> x.int # 0
      [] IsStr(x)  -> x.str # <<"">>
      [] IsDict(x) -> DOMAIN x.dict # {}
      [] IsList(x) -> x.list # <<>>

\* x or default
OrElse(x, default) == IF Truthy(x) THEN x ELSE default

\* str.upper() and str.lower() on the alphabet of the model
UpperChunk(c) == CASE c = "abc" -> "ABC" [] c = "get" -> "GET" [] OTHER -> c
LowerChunk(c) == CASE c = "ABC" -> "abc" [] c = "GET" -> "get" [] OTHER -> c
Upper(x) == [str |-> [i \in DOMAIN x.str |-> UpperChunk(x.str[i])]]
Lower(x) == [str |-> [i \in DOMAIN x.str |-> LowerChunk(x.str[i])]]

\* What a call gives: a returned value or a raised exception with str(e)
Return(v) == [raised |-> FALSE, value |-> v]
Raise(msg) == [raised |-> TRUE, error |-> msg]

\* {"success": False, "error": str(e)}
Failure(msg) == Dict([success |-> Bool(FALSE), error |-> msg])

----------------------------------------------------------------------------
(* Task executors (app/workers/task_executors.py) *)

\* What an executor does with a configuration that is not a dict: config.get fails
NoGet == Raise(FStr("object has no attribute ", "get"))

\* The network's answers to one HTTP request
NetOutcomes ==
    { [kind |-> "response", status_code |-> 200],
      [kind |-> "response", status_code |-> 404],
      [kind |-> "error"] }

\* timeout = config.get("timeout", 30)
HttpTimeout(config) == DictGet(config, "timeout", Num(30))

\* An executor that sends the request again retry_count times
HttpRequestsRetrying(config) ==
    IF ~IsDict(config) THEN <<>>
    ELSE IF ~IsStr(DictGet(config, "method", Str("GET"))) THEN <<>>
    ELSE IF ~IsStr(DictGet(config, "url", None)) THEN <<>>
    ELSE IF ~(IsInt(HttpTimeout(config)) \/ IsNone(HttpTimeout(config))) THEN <<>>
    ELSE [i \in 1..(1 + DictGet(config, "retry_count", Num(3)).int) |->
             [url |-> DictGet(config, "url", None),
              method |-> Upper(DictGet(config, "method", Str("GET"))),
              timeout |-> HttpTimeout(config)]]

\* The requests HttpRequestExecutor.execute sends: client.request is called
\* once, if the arguments get that far
HttpRequests(config) ==
    IF ~IsDict(config) THEN <<>>
    ELSE IF ~IsStr(DictGet(config, "method", Str("GET"))) THEN <<>>
    ELSE IF ~IsStr(DictGet(config, "url", None)) THEN <<>>
    ELSE IF ~(IsInt(HttpTimeout(config)) \/ IsNone(HttpTimeout(config))) THEN <<>>
    ELSE <<[url |-> DictGet(config, "url", None),
            method |-> Upper(DictGet(config, "method", Str("GET"))),
            timeout |-> HttpTimeout(config)]>>

\* An executor without the except: a failed request raises
HttpRequestExecutorRaising(config, context, net) ==
    IF ~IsDict(config) THEN NoGet
    ELSE
    LET url == DictGet(config, "url", None)
        method == DictGet(config, "method", Str("GET"))
    IN  IF ~IsStr(method) THEN Raise(FStr("object has no attribute ", "upper"))
        ELSE IF HttpRequests(config) = <<>>
             THEN Raise(FStr("invalid argument: ", "request"))
        ELSE IF net.kind = "error"
             THEN Raise(FStr("request failed: ", net.kind))
        ELSE Return(Dict([status_code |-> Num(net.status_code),
                          headers |-> EmptyDict,
                          body |-> Str("text"),
                          success |-> Bool(200 <= net.status_code
                                           /\ net.status_code < 300)]))

HttpRequestExecutor(config, context, net) ==
    IF ~IsDict(config) THEN NoGet
    ELSE
    LET url == DictGet(config, "url", None)
        method == DictGet(config, "method", Str("GET"))
    IN  IF ~IsStr(method) THEN Raise(FStr("object has no attribute ", "upper"))
        ELSE IF HttpRequests(config) = <<>>
             THEN Return(Failure(FStr("invalid argument: ", "request")))
        ELSE IF net.kind = "error"
             THEN Return(Failure(FStr("request failed: ", net.kind)))
        ELSE Return(Dict([status_code |-> Num(net.status_code),
                          headers |-> EmptyDict,
                          body |-> Str("text"),
                          success |-> Bool(200 <= net.status_code
                                           /\ net.status_code < 300)]))

EmailExecutor(config, context) ==
    IF ~IsDict(config) THEN NoGet
    ELSE Return(Dict([success |-> Bool(TRUE),
                      to |-> DictGet(config, "to", None),
                      subject |-> DictGet(config, "subject", None),
                      message |-> Str("Email sent successfully (simulated)")]))

DatabaseExecutor(config, context) ==
    IF ~IsDict(config) THEN NoGet
    ELSE Return(Dict([success |-> Bool(TRUE),
                      operation |-> DictGet(config, "operation", None),
                      table |-> DictGet(config, "table", None),
                      message |-> Str("Database operation completed (simulated)")]))

TransformExecutor(config, context) ==
    IF ~IsDict(config) THEN NoGet
    ELSE
    LET operation == DictGet(config, "operation", None)
        source_field == DictGet(config, "source_field", None)
        target_field == DictGet(config, "target_field", None)
    IN  IF IsList(source_field) \/ IsDict(source_field)
        THEN Return(Failure(FStr("unhashable type: ", "source_field")))
        ELSE
        LET source_data ==
                IF IsStr(source_field) /\ Len(source_field.str) = 1
                THEN GetOr(context, source_field.str[1], EmptyDict)
                ELSE EmptyDict
            result ==
                IF operation = Str("uppercase") /\ IsStr(source_data)
                THEN Upper(source_data)
                ELSE IF operation = Str("lowercase") /\ IsStr(source_data)
                THEN Lower(source_data)
                ELSE IF operation = Str("extract") /\ IsDict(source_data)
                THEN LET extract_key == DictGet(config, "extract_key", None)
                     IN  IF ~Truthy(extract_key) THEN source_data
                         ELSE IF IsStr(extract_key) /\ Len(extract_key.str) = 1
                         THEN DictGet(source_data, extract_key.str[1], None)
                         ELSE None
                ELSE source_data
            key == OrElse(target_field, Str("result"))
        IN  IF ~IsStr(key) \/ Len(key.str) # 1
            THEN Return(Failure(FStr("unhashable type: ", "target_field")))
            ELSE Return(Dict(Put([success |-> Bool(TRUE)], key.str[1], result)))

\* eval(condition, {"__builtins__": {}}, context) for a condition that is a
\* literal or one identifier
Eval(condition, context) ==
    IF ~IsStr(condition) \/ Len(condition.str) # 1
    THEN Raise(FStr("eval() arg 1 must be a string", ""))
    ELSE LET src == condition.str[1]
         IN  CASE src = "True"  -> Return(Bool(TRUE))
               [] src = "False" -> Return(Bool(FALSE))
               [] OTHER -> IF src \in DOMAIN context
                           THEN Return(context[src])
                           ELSE Raise(FStr("name is not defined: ", src))

ConditionalExecutor(config, context) ==
    IF ~IsDict(config) THEN NoGet
    ELSE
    LET condition == DictGet(config, "condition", None)
        evaluated == Eval(condition, context)
    IN  IF evaluated.raised THEN Return(Failure(evaluated.error))
        ELSE LET result == Truthy(evaluated.value)
             IN  Return(Dict([success |-> Bool(TRUE),
                              condition_met |-> Bool(result),
                              true_tasks |-> IF result
                                  THEN DictGet(config, "true_tasks", List(<<>>))
                                  ELSE List(<<>>),
                              false_tasks |-> IF ~result
                                  THEN DictGet(config, "false_tasks", List(<<>>))
                                  ELSE List(<<>>)]))

\* Task executor registry
TASK_EXECUTORS == {"http_request", "email", "database", "transform", "conditional"}

\* get_task_executor: the executor's tag, or the ValueError
get_task_executor(task_type) ==
    IF task_type \notin TASK_EXECUTORS
    THEN Raise(FStr("Unsupported task type: ", task_type))
    ELSE Return(task_type)

\* executor.execute(task.configuration, context)
Execute(executor, config, context, net) ==
    CASE executor = "http_request" -> HttpRequestExecutor(config, context, net)
      [] executor = "email"        -> EmailExecutor(config, context)
      [] executor = "database"     -> DatabaseExecutor(config, context)
      [] executor = "transform"    -> TransformExecutor(config, context)
      [] executor = "conditional"  -> ConditionalExecutor(config, context)

\* The answers the environment can give to one invocation of an executor
Outcomes(executor) ==
    IF executor = "http_request" THEN NetOutcomes ELSE {[kind |-> "none"]}

----------------------------------------------------------------------------
(* Rows and requests *)

\* TEMP_USER_ID, the caller of every request, and the owner of rows another
\* user's requests left in the tables
TEMP_USER_ID == "user-1"
OTHER_USER_ID == "user-2"

\* TaskCreate
TaskCreate(name, type, configuration, order_index) ==
    [name |-> name, type |-> type, configuration |-> configuration,
     order_index |-> order_index]

\* Task(workflow_id=..., ...): the i-th task of a WorkflowCreate
TaskRow(workflow_id, i, task_data) ==
    [workflow_id |-> workflow_id, id |-> i, name |-> task_data.name,
     type |-> task_data.type, configuration |-> task_data.configuration,
     order_index |-> task_data.order_index]

\* Workflow(user_id=..., is_active=...)
WorkflowRow(user_id, is_active) == [user_id |-> user_id, is_active |-> is_active]

\* A record created with completed_at stamped as well
ExecutionRowStamped(workflow_id, started_at) ==
    [workflow_id |-> workflow_id, status |-> "running",
     started_at |-> Num(started_at), completed_at |-> Num(started_at),
     execution_time |-> None, result |-> EmptyDict, error_message |-> None]

\* WorkflowExecution(workflow_id=..., status="running", started_at=utcnow(), result={})
ExecutionRow(workflow_id, started_at) ==
    [workflow_id |-> workflow_id, status |-> "running",
     started_at |-> Num(started_at), completed_at |-> None,
     execution_time |-> None, result |-> EmptyDict, error_message |-> None]

\* WorkflowExecutionResponse built from a row (from_attributes)
ExecutionView(id, row) ==
    Dict([id |-> Num(id), workflow_id |-> Num(row.workflow_id),
          status |-> Str(row.status), started_at |-> row.started_at,
          completed_at |-> row.completed_at,
          execution_time |-> row.execution_time, result |-> row.result,
          error_message |-> row.error_message])

\* The pending view a background dispatch answers with
PendingView(workflow_id) ==
    Dict([id |-> Str("celery-task-id"), workflow_id |-> Num(workflow_id),
          status |-> Str("pending"), started_at |-> None, completed_at |-> None,
          execution_time |-> None,
          result |-> Dict([task_id |-> Str("celery-task-id"),
                           message |-> Str("Workflow execution started in background")]),
          error_message |-> None])

Response(code, op, id, body) == [code |-> code, op |-> op, id |-> id, body |-> body]
NoResponse == Response(0, "none", 0, None)

\* A lookup by id alone
get_workflow_of_any_user(workflow_id, user_id) ==
    IF workflow_id \in DOMAIN workflows THEN workflows[workflow_id] ELSE None

\* WorkflowService.get_workflow: the row of the caller's workflow, or None
get_workflow(workflow_id, user_id) ==
    IF workflow_id \in DOMAIN workflows /\ workflows[workflow_id].user_id = user_id
    THEN workflows[workflow_id]
    ELSE None

\* workflow.tasks as selectinload returns it: the workflow's rows in insertion order
LoadTasks(workflow_id) ==
    LET rows == {t \in tasks : t.workflow_id = workflow_id}
    IN  [i \in 1..Cardinality(rows) |-> CHOOSE t \in rows : t.id = i]

\* An unstable sort: a task goes before the tasks of its own order_index
InsertBeforeEqual(sorted, t) ==
    LET k == Cardinality({i \in DOMAIN sorted : sorted[i].order_index < t.order_index})
    IN  SubSeq(sorted, 1, k) \o <<t>> \o SubSeq(sorted, k + 1, Len(sorted))

\* sorted(tasks, key=lambda t: t.order_index): a stable sort
InsertByOrderIndex(sorted, t) ==
    LET k == Cardinality({i \in DOMAIN sorted : sorted[i].order_index <= t.order_index})
    IN  SubSeq(sorted, 1, k) \o <<t>> \o SubSeq(sorted, k + 1, Len(sorted))

RECURSIVE SortPrefix(_, _)
SortPrefix(ts, n) ==
    IF n = 0 THEN <<>> ELSE InsertByOrderIndex(SortPrefix(ts, n - 1), ts[n])

SortedTasks(ts) == SortPrefix(ts, Len(ts))

----------------------------------------------------------------------------
(* One execute request: the state of its coroutine *)

NewRun(mode, workflow_id, input_data, pc) ==
    [mode |-> mode, workflow_id |-> workflow_id, input_data |-> input_data,
     pc |-> pc, eid |-> 0, sorted_tasks |-> <<>>, idx |-> 0,
     context |-> EmptyMap, task_results |-> EmptyMap, log |-> <<>>,
     outs |-> <<>>, requests |-> <<>>, error |-> None]

LogEntry(ev, task) == [ev |-> ev, task |-> task.id]

\* A loop that honours the branch lists: after a conditional task, the next
\* task is skipped when the unselected list names it
NextIndexBranching(run, task_result) ==
    LET config == run.sorted_tasks[run.idx].configuration
        next == run.idx + 1
        unselected ==
            IF ~IsDict(config) \/ "condition_met" \notin DOMAIN task_result.dict
            THEN <<>>
            ELSE IF task_result.dict.condition_met.bool
            THEN DictGet(config, "false_tasks", List(<<>>)).list
            ELSE DictGet(config, "true_tasks", List(<<>>)).list
    IN  IF /\ next <= Len(run.sorted_tasks)
           /\ \E i \in DOMAIN unselected :
                  unselected[i] = Str(run.sorted_tasks[next].name)
        THEN next + 1
        ELSE next

\* for task in sorted_tasks: the position after the task at idx
NextIndex(run, task_result) == run.idx + 1

\* A loop that keeps results in the result map only
TaskSucceededResultsOnly(run, task, task_result) ==
    [run EXCEPT !.outs = Append(@, Return(task_result)),
                !.task_results = Put(@, task.name, task_result),
                !.log = Append(@, LogEntry("completed", task)),
                !.idx = NextIndex(run, task_result),
                !.pc = "loop"]

\* _execute_tasks, the body of the try: the executor returned task_result
TaskSucceeded(run, task, task_result) ==
    [run EXCEPT !.outs = Append(@, Return(task_result)),
                !.task_results = Put(@, task.name, task_result),
                !.context = Put(@, task.name, task_result),
                !.log = Append(@, LogEntry("completed", task)),
                !.idx = NextIndex(run, task_result),
                !.pc = "loop"]

\* Fail-fast: the first exception ends the loop
TaskFailedAborting(run, task, error) ==
    [run EXCEPT !.outs = Append(@, Raise(error)),
                !.task_results = Put(@, task.name, Failure(error)),
                !.log = Append(@, LogEntry("failed", task)),
                !.idx = Len(run.sorted_tasks) + 1,
                !.pc = "loop"]

\* The failure is stored in the context as well
TaskFailedIntoContext(run, task, error) ==
    [run EXCEPT !.outs = Append(@, Raise(error)),
                !.task_results = Put(@, task.name, Failure(error)),
                !.context = Put(@, task.name, Failure(error)),
                !.log = Append(@, LogEntry("failed", task)),
                !.idx = run.idx + 1,
                !.pc = "loop"]

\* _execute_tasks, except Exception as e
TaskFailed(run, task, error) ==
    [run EXCEPT !.outs = Append(@, Raise(error)),
                !.task_results = Put(@, task.name, Failure(error)),
                !.log = Append(@, LogEntry("failed", task)),
                !.idx = run.idx + 1,
                !.pc = "loop"]

InFlight == {"start", "load", "loop", "exec", "failed"}

----------------------------------------------------------------------------
(* Inputs of the requests *)

HttpCfg == Dict([url |-> Str("http://svc"), method |-> Str("get")])
\* "method": null is a Dict[str, Any] like any other: method.upper() raises
HttpNullMethodCfg == Dict([url |-> Str("http://svc"), method |-> None])
EmailCfg == Dict([to |-> Str("ops"), subject |-> Str("abc"), body |-> Str("text")])
DatabaseCfg == Dict([operation |-> Str("select"), table |-> Str("jobs")])
TransformCfg == Dict([operation |-> Str("uppercase"), source_field |-> Str("input")])
SuccessTargetCfg ==
    Dict([operation |-> Str("extract"), source_field |-> Str("input"),
          target_field |-> Str("success")])
ConditionalCfg(condition) ==
    Dict([condition |-> Str(condition),
          true_tasks |-> List(<<Str("b")>>), false_tasks |-> List(<<Str("c")>>)])

\* input_data of an execute request: absent, or a map
Inputs == {None, Dict([k |-> Str("abc")])}

\* The task lists the engine is checked on
EngineTaskLists ==
    { <<>>,
      <<TaskCreate("a", "email", EmailCfg, 1),
        TaskCreate("b", "webhook", EmptyDict, 2),
        TaskCreate("c", "database", DatabaseCfg, 3)>>,
      <<TaskCreate("a", "http_request", HttpNullMethodCfg, 0),
        TaskCreate("b", "http_request", HttpCfg, 1)>>,
      <<TaskCreate("a", "email", EmailCfg, 2),
        TaskCreate("b", "database", DatabaseCfg, 1),
        TaskCreate("c", "transform", TransformCfg, 1)>>,
      <<TaskCreate("x", "email", EmailCfg, 0),
        TaskCreate("x", "http_request", HttpNullMethodCfg, 1)>>,
      <<TaskCreate("x", "http_request", HttpNullMethodCfg, 0),
        TaskCreate("x", "database", DatabaseCfg, 0)>>,
      <<TaskCreate("gate", "conditional", ConditionalCfg("input"), 0),
        TaskCreate("b", "email", EmailCfg, 1),
        TaskCreate("c", "database", DatabaseCfg, 2)>>,
      <<TaskCreate("gate", "conditional", ConditionalCfg("missing"), 0),
        TaskCreate("c", "database", DatabaseCfg, 1),
        TaskCreate("b", "email", EmailCfg, 1)>>,
      <<TaskCreate("x", "email", EmailCfg, 0),
        TaskCreate("x", "database", DatabaseCfg, 1)>>,
      <<TaskCreate("input", "email", EmailCfg, 0),
        TaskCreate("c", "transform", TransformCfg, 1)>>,
      <<TaskCreate("t", "transform", SuccessTargetCfg, 0)>> }

\* The workflows and inputs of the requests of the whole system
ApiTaskLists ==
    { <<>>,
      <<TaskCreate("a", "http_request", HttpNullMethodCfg, 0)>>,
      <<TaskCreate("a", "http_request", HttpNullMethodCfg, 1),
        TaskCreate("b", "email", EmailCfg, 0)>> }

ApiInputs == {None}

----------------------------------------------------------------------------
(* The HTTP layer (app/api/v1/workflows.py, app/services/workflow_service.py) *)

\* GET /{workflow_id}
GetWorkflow(workflow_id) ==
    /\ response' = IF IsNone(get_workflow(workflow_id, TEMP_USER_ID))
                   THEN Response(404, "get", workflow_id, None)
                   ELSE Response(200, "get", workflow_id, None)
    /\ UNCHANGED <<workflows, tasks, executions, runs, exIssued, now>>

\* PUT /{workflow_id}: WorkflowService.update_workflow, here of is_active
UpdateWorkflow(workflow_id, is_active) ==
    /\ IF IsNone(get_workflow(workflow_id, TEMP_USER_ID))
       THEN /\ response' = Response(404, "update", workflow_id, None)
            /\ UNCHANGED workflows
       ELSE /\ workflows' = [workflows EXCEPT ![workflow_id].is_active = is_active]
            /\ response' = Response(200, "update", workflow_id, None)
    /\ UNCHANGED <<tasks, executions, runs, exIssued, now>>

\* The rows left when db.delete(workflow) cascades (cascade="all, delete-orphan")
RemoveKey(m, k) == [x \in DOMAIN m \ {k} |-> m[x]]
CascadeTasks(workflow_id) == {t \in tasks : t.workflow_id # workflow_id}
\* A relationship without the cascade: the workflow's executions are kept
CascadeExecutionsNone(workflow_id) == executions

\* A soft delete: the workflow's executions are kept and marked failed
CascadeExecutionsMarking(workflow_id) ==
    [e \in DOMAIN executions |->
        IF executions[e].workflow_id = workflow_id
        THEN [executions[e] EXCEPT !.status = "failed"]
        ELSE executions[e]]

CascadeExecutions(workflow_id) ==
    [e \in {x \in DOMAIN executions : executions[x].workflow_id # workflow_id}
        |-> executions[e]]

\* DELETE /{workflow_id}: WorkflowService.delete_workflow
DeleteWorkflow(workflow_id) ==
    /\ IF IsNone(get_workflow(workflow_id, TEMP_USER_ID))
       THEN /\ response' = Response(404, "delete", workflow_id, None)
            /\ UNCHANGED <<workflows, tasks, executions>>
       ELSE /\ workflows' = RemoveKey(workflows, workflow_id)
            /\ tasks' = CascadeTasks(workflow_id)
            /\ executions' = CascadeExecutions(workflow_id)
            /\ response' = Response(204, "delete", workflow_id, None)
    /\ UNCHANGED <<runs, exIssued, now>>

\* POST /{workflow_id}/execute, up to the dispatch
Dispatch(workflow_id, background, input_data, limit) ==
    /\ IF IsNone(get_workflow(workflow_id, TEMP_USER_ID))
       THEN /\ response' = Response(404, "execute", workflow_id, None)
            /\ UNCHANGED runs
       ELSE /\ Len(runs) < limit
            /\ IF background
               THEN /\ runs' = Append(runs, NewRun("background", workflow_id,
                                                   input_data, "queued"))
                    /\ response' = Response(200, "execute", workflow_id,
                                            PendingView(workflow_id))
               ELSE /\ runs' = Append(runs, NewRun("sync", workflow_id,
                                                   input_data, "start"))
                    /\ response' = NoResponse
    /\ UNCHANGED <<workflows, tasks, executions, exIssued, now>>

ExecuteWorkflow(workflow_id, background, input_data) ==
    Dispatch(workflow_id, background, input_data, MaxRuns)

----------------------------------------------------------------------------
(* WorkflowExecutor (app/workers/workflow_executor.py) *)

\* What the caller of run r gets when execute_workflow raises: the synchronous
\* request fails; the Celery task catches and returns a dict to its backend
Raised(run) ==
    IF run.mode = "sync" THEN Response(500, "execution", run.workflow_id, None)
    ELSE NoResponse

\* execute_workflow, lines 36-44: the record is inserted and committed.  The
\* insert of a row whose workflow is gone violates the foreign key.
Start(r) ==
    /\ runs[r].pc \in {"start", "queued"}
    /\ IF runs[r].workflow_id \notin DOMAIN workflows
       THEN /\ runs' = [runs EXCEPT ![r].pc = "error"]
            /\ response' = Raised(runs[r])
            /\ UNCHANGED <<executions, exIssued>>
       ELSE LET id == exIssued + 1
            IN  /\ exIssued' = id
                /\ executions' = Put(executions, id,
                                     ExecutionRow(runs[r].workflow_id, now))
                /\ runs' = [runs EXCEPT ![r].pc = "load", ![r].eid = id]
                /\ response' = NoResponse
    /\ UNCHANGED <<workflows, tasks, now>>

\* A load whose context is one dict shared by the runs of the process
LoadWorkflowSharedContext(run) ==
    LET id == run.workflow_id
        shared == [k \in UNION {DOMAIN runs[q].context : q \in DOMAIN runs} |->
                      LET q == CHOOSE q \in DOMAIN runs : k \in DOMAIN runs[q].context
                      IN  runs[q].context[k]]
    IN  IF id \notin DOMAIN workflows
        THEN [run EXCEPT !.pc = "failed", !.error = FStr("Workflow not found: ", id)]
        ELSE IF ~workflows[id].is_active
        THEN [run EXCEPT !.pc = "failed", !.error = FStr("Workflow is not active: ", id)]
        ELSE [run EXCEPT !.pc = "loop",
                         !.sorted_tasks = SortedTasks(LoadTasks(id)),
                         !.idx = 1,
                         !.context = Put(shared, "input", OrElse(run.input_data, EmptyDict)),
                         !.task_results = EmptyMap]

\* A job that is not given the request's input
LoadWorkflowJobWithoutInput(run) ==
    LET id == run.workflow_id
        input_data == IF run.mode = "background" THEN None ELSE run.input_data
    IN  IF id \notin DOMAIN workflows
        THEN [run EXCEPT !.pc = "failed", !.error = FStr("Workflow not found: ", id)]
        ELSE IF ~workflows[id].is_active
        THEN [run EXCEPT !.pc = "failed", !.error = FStr("Workflow is not active: ", id)]
        ELSE [run EXCEPT !.pc = "loop",
                         !.sorted_tasks = SortedTasks(LoadTasks(id)),
                         !.idx = 1,
                         !.context = [input |-> OrElse(input_data, EmptyDict)],
                         !.task_results = EmptyMap]

\* A load that does not look at is_active
LoadWorkflowIgnoringActive(run) ==
    LET id == run.workflow_id
    IN  IF id \notin DOMAIN workflows
        THEN [run EXCEPT !.pc = "failed", !.error = FStr("Workflow not found: ", id)]
        ELSE [run EXCEPT !.pc = "loop",
                         !.sorted_tasks = SortedTasks(LoadTasks(id)),
                         !.idx = 1,
                         !.context = [input |-> OrElse(run.input_data, EmptyDict)],
                         !.task_results = EmptyMap]

\* execute_workflow, lines 48-62, and _execute_tasks, lines 108-113
LoadWorkflow(run) ==
    LET id == run.workflow_id
    IN  IF id \notin DOMAIN workflows
        THEN [run EXCEPT !.pc = "failed", !.error = FStr("Workflow not found: ", id)]
        ELSE IF ~workflows[id].is_active
        THEN [run EXCEPT !.pc = "failed", !.error = FStr("Workflow is not active: ", id)]
        ELSE [run EXCEPT !.pc = "loop",
                         !.sorted_tasks = SortedTasks(LoadTasks(id)),
                         !.idx = 1,
                         !.context = [input |-> OrElse(run.input_data, EmptyDict)],
                         !.task_results = EmptyMap]

Load(r) ==
    /\ runs[r].pc = "load"
    /\ runs' = [runs EXCEPT ![r] = LoadWorkflow(runs[r])]
    /\ response' = NoResponse
    /\ UNCHANGED <<workflows, tasks, executions, exIssued, now>>

\* _execute_tasks, lines 115-120: the next task begins; the lookup of its
\* executor is inside the try
BeginTask(run) ==
    LET task == run.sorted_tasks[run.idx]
        begun == [run EXCEPT !.log = Append(@, LogEntry("executing", task))]
        executor == get_task_executor(task.type)
    IN  IF executor.raised
        THEN TaskFailed(begun, task, executor.error)
        ELSE [begun EXCEPT !.pc = "exec"]

TaskStart(r) ==
    /\ runs[r].pc = "loop"
    /\ runs[r].idx <= Len(runs[r].sorted_tasks)
    /\ runs' = [runs EXCEPT ![r] = BeginTask(runs[r])]
    /\ response' = NoResponse
    /\ UNCHANGED <<workflows, tasks, executions, exIssued, now>>

\* _execute_tasks, lines 123-136: the awaited executor returns or raises
\* What the executor sends to the network for the task at position pos
Sent(executor, config, pos, net) ==
    IF executor # "http_request" THEN <<>>
    ELSE [i \in DOMAIN HttpRequests(config) |->
             [pos |-> pos, request |-> HttpRequests(config)[i], net |-> net]]

EndTask(run, net) ==
    LET task == run.sorted_tasks[run.idx]
        out == Execute(task.type, task.configuration, run.context, net)
        sent == [run EXCEPT !.requests =
                    @ \o Sent(task.type, task.configuration, run.idx, net)]
    IN  IF out.raised
        THEN TaskFailed(sent, task, out.error)
        ELSE TaskSucceeded(sent, task, out.value)

\* A loop that checkpoints: each task's result is committed to the record
TaskReturnCheckpointing(r) ==
    /\ runs[r].pc = "exec"
    /\ \E net \in Outcomes(runs[r].sorted_tasks[runs[r].idx].type) :
           runs' = [runs EXCEPT ![r] = EndTask(runs[r], net)]
    /\ executions' =
           IF runs[r].eid \in DOMAIN executions
           THEN [executions EXCEPT ![runs[r].eid].result =
                    Dict([tasks |-> Dict(runs'[r].task_results)])]
           ELSE executions
    /\ response' = NoResponse
    /\ UNCHANGED <<workflows, tasks, exIssued, now>>

TaskReturn(r) ==
    /\ runs[r].pc = "exec"
    /\ \E net \in Outcomes(runs[r].sorted_tasks[runs[r].idx].type) :
           runs' = [runs EXCEPT ![r] = EndTask(runs[r], net)]
    /\ response' = NoResponse
    /\ UNCHANGED <<workflows, tasks, executions, exIssued, now>>

\* round() in the place of int(): the elapsed time to the nearest second
ExecutionTimeRounded(started_at, completed_at) == (completed_at - started_at + 1) \div 2

\* int((completed_at - started_at).total_seconds()), the clock in half seconds
ExecutionTime(started_at, completed_at) == (completed_at - started_at) \div 2

\* A record that is failed as soon as one task failed
TerminalRowStrict(row, run) ==
    IF run.pc = "failed" \/ \E i \in DOMAIN run.outs : run.outs[i].raised
    THEN [row EXCEPT !.status = "failed",
                     !.completed_at = Num(now),
                     !.error_message = run.error,
                     !.execution_time = Num((now - row.started_at.int) \div 2)]
    ELSE [row EXCEPT !.status = "completed",
                     !.completed_at = Num(now),
                     !.execution_time = Num((now - row.started_at.int) \div 2),
                     !.result = Dict([tasks |-> Dict(run.task_results),
                                      context |-> Dict(run.context)])]

\* execute_workflow, lines 71-76 or 82-87: the terminal values of the record
TerminalRow(row, run) ==
    IF run.pc = "failed"
    THEN [row EXCEPT !.status = "failed",
                     !.completed_at = Num(now),
                     !.error_message = run.error,
                     !.execution_time = Num(ExecutionTime(row.started_at.int, now))]
    ELSE [row EXCEPT !.status = "completed",
                     !.completed_at = Num(now),
                     !.execution_time = Num(ExecutionTime(row.started_at.int, now)),
                     !.result = Dict([tasks |-> Dict(run.task_results),
                                      context |-> Dict(run.context)])]

\* The loop of _execute_tasks is over, or the try of execute_workflow raised
AtTerminal(run) ==
    \/ run.pc = "failed"
    \/ run.pc = "loop" /\ run.idx > Len(run.sorted_tasks)

\* execute_workflow, lines 70-91: the terminal update and its commit.  The
\* update of a row a cascade has deleted matches no row and the commit raises.
Finish(r) ==
    /\ AtTerminal(runs[r])
    /\ IF runs[r].eid \notin DOMAIN executions
       THEN /\ runs' = [runs EXCEPT ![r].pc = "error"]
            /\ response' = Raised(runs[r])
            /\ UNCHANGED executions
       ELSE LET row == TerminalRow(executions[runs[r].eid], runs[r])
            IN  /\ executions' = [executions EXCEPT ![runs[r].eid] = row]
                /\ runs' = [runs EXCEPT ![r].pc = "done"]
                /\ response' = IF runs[r].mode = "sync"
                               THEN Response(200, "execution", runs[r].workflow_id,
                                             ExecutionView(runs[r].eid, row))
                               ELSE NoResponse
    /\ UNCHANGED <<workflows, tasks, exIssued, now>>

\* What is left of a run whose coroutine is gone: its locals are lost, what
\* it logged is not
Abandoned(run) ==
    [NewRun(run.mode, run.workflow_id, run.input_data, "crashed")
        EXCEPT !.eid = run.eid, !.log = run.log]

\* The process dies, or the request is cancelled (CancelledError is no Exception)
Crash(r) ==
    /\ runs[r].pc \in InFlight
    /\ runs' = [runs EXCEPT ![r] = Abandoned(runs[r])]
    /\ response' = NoResponse
    /\ UNCHANGED <<workflows, tasks, executions, exIssued, now>>

\* Time passes while a run is in flight
Tick ==
    /\ now < MaxClock
    /\ \E r \in DOMAIN runs : runs[r].pc \in InFlight
    /\ now' = now + 1
    /\ response' = NoResponse
    /\ UNCHANGED <<workflows, tasks, executions, runs, exIssued>>

----------------------------------------------------------------------------
(* The whole system *)

\* The ids requests name: another user's workflow and the caller's, which is
\* absent once deleted
WorkflowIds == {0, 1}

\* The tables hold a workflow of another user and one the caller created
Init ==
    /\ \E task_list \in ApiTaskLists, is_active \in BOOLEAN :
           /\ workflows = [id \in {0, 1} |->
                              IF id = 0 THEN WorkflowRow(OTHER_USER_ID, TRUE)
                              ELSE WorkflowRow(TEMP_USER_ID, is_active)]
           /\ tasks = {TaskRow(0, 1, TaskCreate("a", "email", EmailCfg, 0))}
                      \cup {TaskRow(1, i, task_list[i]) : i \in DOMAIN task_list}
    /\ executions = EmptyMap
    /\ runs = <<>>
    /\ exIssued = 0
    /\ now = 0
    /\ response = NoResponse

Step(r) ==
    \/ Start(r)
    \/ Load(r)
    \/ TaskStart(r)
    \/ TaskReturn(r)
    \/ Finish(r)

Next ==
    \/ \E id \in WorkflowIds : GetWorkflow(id)
    \/ \E id \in WorkflowIds, is_active \in BOOLEAN : UpdateWorkflow(id, is_active)
    \/ \E id \in WorkflowIds : DeleteWorkflow(id)
    \/ \E id \in WorkflowIds, background \in BOOLEAN, input_data \in ApiInputs :
           ExecuteWorkflow(id, background, input_data)
    \/ \E r \in DOMAIN runs : Step(r)
    \/ \E r \in DOMAIN runs : Crash(r)
    \/ Tick

Spec == Init /\ [][Next]_vars

----------------------------------------------------------------------------
(* One synchronous run of the engine over each task list *)

InitEngine ==
    /\ \E task_list \in EngineTaskLists :
           /\ workflows = [id \in {1} |-> WorkflowRow(TEMP_USER_ID, TRUE)]
           /\ tasks = {TaskRow(1, i, task_list[i]) : i \in DOMAIN task_list}
    /\ \E input_data \in Inputs : runs = <<NewRun("sync", 1, input_data, "start")>>
    /\ executions = EmptyMap
    /\ exIssued = 0
    /\ now = 0
    /\ response = NoResponse

NextEngine ==
    \/ \E r \in DOMAIN runs : Step(r)
    \/ Tick

SpecEngine == InitEngine /\ [][NextEngine]_vars

----------------------------------------------------------------------------
(* What the properties speak of *)

\* The task loop of the run has returned
LoopReturned(run) ==
    /\ run.pc \in {"loop", "done", "error"}
    /\ run.idx >= 1
    /\ run.idx > Len(run.sorted_tasks)

\* The ids of the tasks the run has begun, in the order it logged them
IsExecuting(entry) == entry.ev = "executing"
Begun(run) ==
    LET entries == SelectSeq(run.log, IsExecuting)
    IN  [i \in DOMAIN entries |-> entries[i].task]

\* The task of the run's workflow with the given id, as the run loaded it
LoadedTask(run, id) == CHOOSE t \in {run.sorted_tasks[i] : i \in DOMAIN run.sorted_tasks} : t.id = id

\* The positions before the loop's current one whose task has the given name
Attempted(run, name) ==
    {i \in DOMAIN run.outs : run.sorted_tasks[i].name = name}

Max(S) == CHOOSE x \in S : \A y \in S : y <= x

TaskNames(run) == {run.sorted_tasks[i].name : i \in DOMAIN run.sorted_tasks}

Mentions(msg, what) == IsStr(msg) /\ \E k \in DOMAIN msg.str : msg.str[k] = what

----------------------------------------------------------------------------
(* The task loop *)

\* C1: a run that reaches a task whose type tag is not registered ends with
\* its execution record failed and an error message naming the type
C1_UnsupportedTypeIsFatal ==
    \A r \in DOMAIN runs :
        LET run == runs[r]
        IN  \A i \in DOMAIN run.sorted_tasks :
                ( /\ run.sorted_tasks[i].type \notin TASK_EXECUTORS
                  /\ i < run.idx
                  /\ run.pc = "done" )
                => /\ executions[run.eid].status = "failed"
                   /\ Mentions(executions[run.eid].error_message,
                               run.sorted_tasks[i].type)

\* C2: when the executor of a task raises, {success: false, error: message} is
\* recorded under the task's name and the tasks after it are still attempted;
\* every task of the workflow is attempted exactly once in a run
C2_PerTaskIsolation ==
    \A r \in DOMAIN runs :
        LET run == runs[r]
            begun == Begun(run)
        IN  /\ \A i, j \in DOMAIN begun : begun[i] = begun[j] => i = j
            /\ LoopReturned(run) =>
                   {begun[i] : i \in DOMAIN begun}
                       = {run.sorted_tasks[i].id : i \in DOMAIN run.sorted_tasks}
            /\ \A i \in DOMAIN run.outs :
                   ( /\ run.outs[i].raised
                     /\ i = Max(Attempted(run, run.sorted_tasks[i].name)) )
                   => /\ run.sorted_tasks[i].name \in DOMAIN run.task_results
                      /\ run.task_results[run.sorted_tasks[i].name]
                             = Dict([success |-> Bool(FALSE),
                                     error |-> run.outs[i].error])

\* C2 witness: an executor raised at the first position, and the task after
\* it was attempted and its executor returned
C2_Witness ==
    \E r \in DOMAIN runs :
        /\ LoopReturned(runs[r])
        /\ Len(runs[r].outs) >= 2
        /\ runs[r].sorted_tasks[1].type \in TASK_EXECUTORS
        /\ runs[r].outs[1].raised
        /\ ~runs[r].outs[2].raised

\* C5: tasks begin in ascending order_index, those of equal order_index in the
\* order of the loaded collection, and each begins only after the one before
\* it has returned or raised
C5_SequentialStableOrder ==
    \A r \in DOMAIN runs :
        LET run == runs[r]
            begun == Begun(run)
        IN  /\ \A i, j \in DOMAIN begun :
                   i < j =>
                       LET a == LoadedTask(run, begun[i])
                           b == LoadedTask(run, begun[j])
                       IN  \/ a.order_index < b.order_index
                           \/ a.order_index = b.order_index /\ a.id < b.id
            /\ \A p \in DOMAIN run.log :
                   /\ (run.log[p].ev = "executing" /\ p > 1)
                          => run.log[p - 1].ev \in {"completed", "failed"}
                   /\ run.log[p].ev \in {"completed", "failed"}
                          => /\ p > 1
                             /\ run.log[p - 1].ev = "executing"
                             /\ run.log[p - 1].task = run.log[p].task

\* C5 witness: three tasks loaded out of order, two of them with the same
\* order_index, have all run
C5_Witness ==
    \E r \in DOMAIN runs :
        /\ LoopReturned(runs[r])
        /\ Begun(runs[r]) = <<2, 3, 1>>

\* C6: the keys of the per-task result map are the task names, and under a
\* name two tasks share, the result map and the context both hold the result
\* of the later-ordered one
C6_LaterDuplicateWinsInBoth ==
    \A r \in DOMAIN runs :
        LET run == runs[r]
        IN  LoopReturned(run) =>
                /\ DOMAIN run.task_results = TaskNames(run)
                /\ \A name \in TaskNames(run) :
                       Cardinality(Attempted(run, name)) >= 2 =>
                           LET out == run.outs[Max(Attempted(run, name))]
                               result == IF out.raised THEN Failure(out.error)
                                         ELSE out.value
                           IN  /\ run.task_results[name] = result
                               /\ name \in DOMAIN run.context
                               /\ run.context[name] = result

\* The positions whose task has the given name and whose executor returned
Returned(run, name) == {i \in Attempted(run, name) : ~run.outs[i].raised}

\* C6, amended: the keys of the per-task result map are the task names and
\* each holds the outcome of the last task of that name; the context holds,
\* under a name, the result of the last task of that name whose executor
\* returned, and nothing of a task whose executor raised
C6_LaterDuplicateWinsWhereWritten ==
    \A r \in DOMAIN runs :
        LET run == runs[r]
        IN  LoopReturned(run) =>
                /\ DOMAIN run.task_results = TaskNames(run)
                /\ \A name \in TaskNames(run) :
                       LET out == run.outs[Max(Attempted(run, name))]
                       IN  run.task_results[name] =
                               IF out.raised THEN Failure(out.error) ELSE out.value
                /\ \A name \in TaskNames(run) \cup DOMAIN run.context :
                       IF Returned(run, name) # {}
                       THEN /\ name \in DOMAIN run.context
                            /\ run.context[name]
                                   = run.outs[Max(Returned(run, name))].value
                       ELSE name \in DOMAIN run.context =>
                                /\ name = "input"
                                /\ run.context[name]
                                       = OrElse(run.input_data, EmptyDict)

\* C6 witness: two tasks share a name, the later one raised, and the context
\* still holds the earlier one's result while the result map holds the failure
C6_Witness ==
    \E r \in DOMAIN runs :
        /\ LoopReturned(runs[r])
        /\ Len(runs[r].outs) = 2
        /\ runs[r].sorted_tasks[1].name = runs[r].sorted_tasks[2].name
        /\ ~runs[r].outs[1].raised
        /\ runs[r].outs[2].raised
        /\ runs[r].context["x"] = runs[r].outs[1].value
        /\ runs[r].task_results["x"] = Failure(runs[r].outs[2].error)

----------------------------------------------------------------------------
(* The execution record and the requests *)

NotActive(run) == FStr("Workflow is not active: ", run.workflow_id)
NotFound(run) == FStr("Workflow not found: ", run.workflow_id)

\* The caller of the requests does not see the workflow: it is absent or another's
NotVisible(id) == id \notin DOMAIN workflows \/ workflows[id].user_id # TEMP_USER_ID

Terminal == {"completed", "failed"}

\* C3: the record of a run whose task loop returned becomes completed, however
\* many of its tasks failed; a record is failed only for an exception of the
\* engine itself (workflow not found, workflow not active), outside the loop
C3_CompletedUnlessEngineError ==
    \A r \in DOMAIN runs :
        LET run == runs[r]
        IN  run.eid \in DOMAIN executions =>
                LET row == executions[run.eid]
                IN  /\ (run.pc = "done" /\ LoopReturned(run)) => row.status = "completed"
                    /\ row.status = "completed" => LoopReturned(run) /\ IsNone(run.error)
                    /\ row.status = "failed" =>
                           /\ ~LoopReturned(run)
                           /\ run.log = <<>>
                           /\ run.error \in {NotFound(run), NotActive(run)}
                           /\ row.error_message = run.error

\* C3 witness: every task of the run failed and its record is completed
C3_Witness ==
    \E r \in DOMAIN runs :
        /\ runs[r].pc = "done"
        /\ Len(runs[r].outs) >= 1
        /\ \A i \in DOMAIN runs[r].outs : runs[r].outs[i].raised
        /\ executions[runs[r].eid].status = "completed"

StatusEdges ==
    {<<"pending", "running">>, <<"running", "completed">>, <<"running", "failed">>}

\* C4: a record is created pending or running, its status moves only along
\* pending -> running -> {completed, failed}, and no step changes a record
\* that is completed or failed
C4_TerminalIsFinal ==
    [][\A e \in DOMAIN executions' :
           IF e \in DOMAIN executions
           THEN /\ executions[e].status \in Terminal => executions'[e] = executions[e]
                /\ executions'[e].status # executions[e].status
                       => <<executions[e].status, executions'[e].status>> \in StatusEdges
           ELSE executions'[e].status \in {"pending", "running"}]_vars

\* C4 witness: the workflow of a terminal record is updated
C4_Witness ==
    /\ \E e \in DOMAIN executions : executions[e].status \in Terminal
    /\ response.op = "update"
    /\ response.code = 200

\* C8: a synchronous run that loads its workflow and finds it inactive runs no
\* task, and, the workflow still being there when it ends, leaves exactly one
\* record for the run, failed with a message, which the caller receives
C8_InactiveWorkflowFails ==
    [][\A r \in DOMAIN runs :
           LET run == runs[r]
               after == runs'[r]
               id == run.workflow_id
           IN  (run.mode = "sync" /\ after.pc # "crashed" /\ id \in DOMAIN workflows) =>
                   /\ (run.pc = "load" /\ after.pc # "load" /\ ~workflows[id].is_active)
                          => /\ after.pc = "failed"
                             /\ after.error = NotActive(run)
                             /\ after.log = <<>>
                   /\ (run.pc = "failed" /\ after.pc # "failed" /\ run.error = NotActive(run))
                          => /\ after.pc = "done"
                             /\ after.log = <<>> /\ after.outs = <<>>
                             /\ run.eid \in DOMAIN executions'
                             /\ executions'[run.eid].status = "failed"
                             /\ IsStr(executions'[run.eid].error_message)
                             /\ executions'[run.eid].result = EmptyDict
                             /\ \A q \in DOMAIN runs : q # r => runs[q].eid # run.eid
                             /\ Cardinality({e \in DOMAIN executions' :
                                                 executions'[e].workflow_id = id})
                                    = Cardinality({q \in DOMAIN runs :
                                                      /\ runs[q].workflow_id = id
                                                      /\ runs[q].eid # 0})
                             /\ response'.code = 200
                             /\ response'.body.dict.id = Num(run.eid)
                             /\ response'.body.dict.status = Str("failed")
                             /\ response'.body.dict.error_message
                                    = executions'[run.eid].error_message]_vars

\* C8 witness: the caller of a synchronous run of an inactive workflow has the
\* failed record
C8_Witness ==
    \E r \in DOMAIN runs :
        /\ runs[r].mode = "sync"
        /\ runs[r].pc = "done"
        /\ runs[r].error = NotActive(runs[r])
        /\ response.op = "execution"
        /\ response.code = 200
        /\ response.body.dict.status = Str("failed")

RequestOps == {"get", "update", "delete", "execute"}

\* C9: a get, update, delete or execute request is answered 404 exactly when
\* the workflow is absent or another user's; a step answered 404 changes no
\* table and dispatches nothing, no run is begun or queued for such a
\* workflow, and its rows are never touched
C9_NotFoundChangesNothing ==
    [][/\ response'.op \in RequestOps
              => (response'.code = 404 <=> NotVisible(response'.id))
       /\ response'.code = 404
              => UNCHANGED <<workflows, tasks, executions, runs, exIssued>>
       /\ \A r \in DOMAIN runs' \ DOMAIN runs : ~NotVisible(runs'[r].workflow_id)
       /\ \A id \in DOMAIN workflows :
              NotVisible(id) =>
                  /\ id \in DOMAIN workflows'
                  /\ workflows'[id] = workflows[id]
                  /\ {t \in tasks' : t.workflow_id = id}
                         = {t \in tasks : t.workflow_id = id}]_vars

\* C9 witness: an execute request for another user's workflow is answered 404
C9_Witness ==
    /\ response = Response(404, "execute", 0, None)
    /\ 0 \in DOMAIN workflows
    /\ runs # <<>>

\* C10: from its creation to the terminal commit of its run the record is as
\* created: running, with no completed_at, no result, no error; so it stays
\* when the run is abandoned in between.  After the terminal commit it is
\* completed or failed.
C10_OnlyTwoCommits ==
    \A r \in DOMAIN runs :
        LET run == runs[r]
        IN  run.eid \in DOMAIN executions =>
                LET row == executions[run.eid]
                IN  IF run.pc = "done"
                    THEN row.status \in Terminal /\ ~IsNone(row.completed_at)
                    ELSE /\ run.pc \in {"load", "loop", "exec", "failed", "crashed"}
                         /\ row.status = "running"
                         /\ IsNone(row.completed_at)
                         /\ IsNone(row.execution_time)
                         /\ IsNone(row.error_message)
                         /\ row.result = EmptyDict

\* C10 witness: a run was abandoned after a task of it had run, time has
\* passed, and its record is running with no result
C10_Witness ==
    \E r \in DOMAIN runs :
        /\ runs[r].pc = "crashed"
        /\ Len(runs[r].log) >= 2
        /\ runs[r].eid \in DOMAIN executions
        /\ executions[runs[r].eid].status = "running"
        /\ now > executions[runs[r].eid].started_at.int

----------------------------------------------------------------------------
(* Two runs side by side *)

ExtractCfg ==
    Dict([operation |-> Str("extract"), source_field |-> Str("input"),
          extract_key |-> Str("k"), target_field |-> Str("v")])

\* Task lists whose results depend on the input and on earlier results
PairTaskLists ==
    { <<TaskCreate("t", "transform", ExtractCfg, 0),
        TaskCreate("u", "conditional", ConditionalCfg("t"), 1)>>,
      <<TaskCreate("x", "email", EmailCfg, 0),
        TaskCreate("t", "transform", ExtractCfg, 0)>>,
      <<TaskCreate("h", "http_request", HttpCfg, 0)>> }

\* Two synchronous runs, of the same workflow or of two, are in flight
InitPair ==
    /\ \E first \in PairTaskLists, second \in PairTaskLists :
           /\ workflows = [id \in {1, 2} |-> WorkflowRow(TEMP_USER_ID, TRUE)]
           /\ tasks = {TaskRow(1, i, first[i]) : i \in DOMAIN first}
                      \cup {TaskRow(2, i, second[i]) : i \in DOMAIN second}
    /\ \E id \in {1, 2}, input_data \in Inputs, other_input \in Inputs :
           runs = <<NewRun("sync", 1, input_data, "start"),
                    NewRun("sync", id, other_input, "start")>>
    /\ executions = EmptyMap
    /\ exIssued = 0
    /\ now = 0
    /\ response = NoResponse

NextPair == \E r \in DOMAIN runs : Step(r)

SpecPair == InitPair /\ [][NextPair]_vars

\* The tasks of the run's workflow, in the order of the loop
OwnTasks(run) == SortedTasks(LoadTasks(run.workflow_id))

\* What the k-th task of the run can give when called with a context
PossibleOuts(task, context) ==
    IF get_task_executor(task.type).raised
    THEN {Raise(get_task_executor(task.type).error)}
    ELSE {Execute(task.type, task.configuration, context, net) :
              net \in Outcomes(task.type)}

\* The context made of the run's input and its own first k outcomes
RECURSIVE OwnContext(_, _)
OwnContext(run, k) ==
    IF k = 0 THEN [input |-> OrElse(run.input_data, EmptyDict)]
    ELSE IF run.outs[k].raised THEN OwnContext(run, k - 1)
    ELSE Put(OwnContext(run, k - 1), OwnTasks(run)[k].name, run.outs[k].value)

\* The result map made of the run's own first k outcomes
RECURSIVE OwnResults(_, _)
OwnResults(run, k) ==
    IF k = 0 THEN EmptyMap
    ELSE Put(OwnResults(run, k - 1), OwnTasks(run)[k].name,
             IF run.outs[k].raised THEN Failure(run.outs[k].error)
             ELSE run.outs[k].value)

\* C11: runs that interleave have records of distinct ids, and what a run
\* holds and stores is made of its own input and its own tasks alone: each
\* task's outcome is one its executor gives on the context built from the
\* run's input and the run's earlier outcomes, and the record's result holds
\* that result map and that context
C11_RunsAreIndependent ==
    \A r \in DOMAIN runs :
        LET run == runs[r]
            n == Len(run.outs)
        IN  /\ \A q \in DOMAIN runs :
                   (q # r /\ run.eid # 0) => runs[q].eid # run.eid
            /\ run.pc \in {"loop", "exec", "done"} =>
                   /\ n <= Len(OwnTasks(run))
                   /\ \A k \in 1..n :
                          run.outs[k] \in PossibleOuts(OwnTasks(run)[k], OwnContext(run, k - 1))
                   /\ run.context = OwnContext(run, n)
                   /\ run.task_results = OwnResults(run, n)
            /\ (run.pc = "done" /\ run.eid \in DOMAIN executions) =>
                   executions[run.eid].result =
                       Dict([tasks |-> Dict(OwnResults(run, n)),
                             context |-> Dict(OwnContext(run, n))])

\* C11 witness: two runs of one workflow with different inputs; one has
\* ended while the other, which has a result in its context, is in a task
C11_Witness ==
    \E r \in DOMAIN runs, q \in DOMAIN runs :
        /\ r # q
        /\ runs[r].workflow_id = runs[q].workflow_id
        /\ runs[r].input_data # runs[q].input_data
        /\ runs[r].pc = "done"
        /\ runs[q].pc = "exec"
        /\ Len(runs[q].outs) >= 1
        /\ runs[r].eid # runs[q].eid
        /\ executions[runs[r].eid].status = "completed"

----------------------------------------------------------------------------
(* Elapsed time *)

----------------------------------------------------------------------------
(* Creation, deletion and execution of workflows *)

MaxWorkflows == 1

HttpTimedCfg(timeout) ==
    Dict([url |-> Str("http://svc"), method |-> Str("get"),
          timeout |-> Num(timeout), retry_count |-> Num(3)])

HttpDefaultsCfg == Dict([url |-> Str("http://svc")])

\* The bodies of the create requests
CreateTaskLists ==
    { <<TaskCreate("h", "http_request", HttpDefaultsCfg, 0),
        TaskCreate("e", "email", EmailCfg, 1)>>,
      <<TaskCreate("h", "http_request", HttpTimedCfg(1000), 0)>>,
      <<TaskCreate("w", "webhook", EmptyDict, 0)>>,
      <<TaskCreate("e", "email", EmailCfg, 0 - 1)>> }

\* TaskBase: name of 1 to 255 characters, type a str, configuration a dict,
\* order_index >= 0
ValidTask(task_data) ==
    /\ task_data.name # ""
    /\ IsDict(task_data.configuration)
    /\ task_data.order_index >= 0

\* The workflows created so far: ids issued that are not ids of executions
Created == exIssued - Cardinality({r \in DOMAIN runs : runs[r].eid # 0})

\* POST /: WorkflowService.create_workflow
CreateWorkflow(task_list) ==
    /\ Created < MaxWorkflows
    /\ IF \E i \in DOMAIN task_list : ~ValidTask(task_list[i])
       THEN /\ response' = Response(422, "create", 0, None)
            /\ UNCHANGED <<workflows, tasks, exIssued>>
       ELSE LET id == exIssued + 1
            IN  /\ exIssued' = id
                /\ workflows' = Put(workflows, id, WorkflowRow(TEMP_USER_ID, TRUE))
                /\ tasks' = tasks \cup {TaskRow(id, i, task_list[i]) : i \in DOMAIN task_list}
                /\ response' = Response(201, "create", id, None)
    /\ UNCHANGED <<executions, runs, now>>

InitCreate ==
    /\ workflows = EmptyMap
    /\ tasks = {}
    /\ executions = EmptyMap
    /\ runs = <<>>
    /\ exIssued = 0
    /\ now = 0
    /\ response = NoResponse

NextCreate ==
    \/ \E task_list \in CreateTaskLists : CreateWorkflow(task_list)
    \/ \E id \in 1..exIssued : DeleteWorkflow(id)
    \/ \E id \in 1..exIssued, input_data \in ApiInputs :
           ExecuteWorkflow(id, FALSE, input_data)
    \/ \E r \in DOMAIN runs : Step(r)

SpecCreate == InitCreate /\ [][NextCreate]_vars

----------------------------------------------------------------------------
(* HTTP requests *)

\* C13: a request of an http_request task that fails in transport (or times
\* out) is not an exception of the task: the executor returns a result with
\* success false and an error string, which is the task's entry in the
\* result map and in the context the later tasks get
C13_TransportFailureIsAResult ==
    \A r \in DOMAIN runs :
        LET run == runs[r]
        IN  \A k \in DOMAIN run.requests :
                LET pos == run.requests[k].pos
                    name == run.sorted_tasks[pos].name
                IN  run.requests[k].net.kind = "error" =>
                        /\ pos <= Len(run.outs)
                        /\ ~run.outs[pos].raised
                        /\ run.outs[pos].value.dict.success = Bool(FALSE)
                        /\ IsStr(run.outs[pos].value.dict.error)
                        /\ run.task_results[name] = run.outs[pos].value
                        /\ run.context[name] = run.outs[pos].value

\* C13 witness: the request of the first task failed in transport, the
\* second task has run and the run is completed
C13_Witness ==
    \E r \in DOMAIN runs :
        /\ runs[r].pc = "done"
        /\ Len(runs[r].outs) = 2
        /\ Len(runs[r].requests) = 1
        /\ runs[r].requests[1].net.kind = "error"
        /\ runs[r].requests[1].pos = 1
        /\ runs[r].eid \in DOMAIN executions
        /\ executions[runs[r].eid].status = "completed"


\* The requests the run sent for the task at position pos
RequestsOf(run, pos) == {k \in DOMAIN run.requests : run.requests[k].pos = pos}

\* The configuration gives client.request a url, a method and a timeout
WellFormedHttp(config) ==
    /\ IsDict(config)
    /\ "url" \in DOMAIN config.dict /\ IsStr(config.dict.url)
    /\ "method" \in DOMAIN config.dict => IsStr(config.dict.method)
    /\ "timeout" \in DOMAIN config.dict => IsInt(config.dict.timeout)

----------------------------------------------------------------------------
(* Referential integrity *)

\* C15: whatever was created, executed and deleted, in whatever order, every
\* task row and every execution record is of a workflow that exists: a
\* delete takes the workflow's tasks and records with it, and no run leaves a
\* record for a workflow that is gone
C15_NoOrphans ==
    /\ \A t \in tasks : t.workflow_id \in DOMAIN workflows
    /\ \A e \in DOMAIN executions : executions[e].workflow_id \in DOMAIN workflows

\* C15 witness: a workflow with tasks was created and executed, its run left
\* a record, and the workflow has been deleted
C15_Witness ==
    \E r \in DOMAIN runs :
        /\ runs[r].eid # 0
        /\ runs[r].sorted_tasks # <<>>
        /\ runs[r].workflow_id \notin DOMAIN workflows
        /\ response = Response(204, "delete", runs[r].workflow_id, None)

----------------------------------------------------------------------------
(* What creation accepts *)

\* C16: every task row a creation persisted has one of the five registered
\* type tags, and a create request with a task of another tag is refused
C16_TypeTagsEnumerated ==
    /\ \A t \in tasks : t.type \in TASK_EXECUTORS
    /\ response.op = "create" /\ response.code = 201 =>
           \A t \in tasks : t.workflow_id = response.id => t.type \in TASK_EXECUTORS

----------------------------------------------------------------------------
(* Background dispatch *)

\* C17: a background dispatch has persisted, when it answers, a record of
\* the run in status pending, the view it answers with has that record's
\* id, and the record of a queued run is pending until the job starts
C17_QueuedRunHasPendingRecord ==
    /\ (response.op = "execute" /\ response.code = 200) =>
           \E e \in DOMAIN executions :
               /\ executions[e].status = "pending"
               /\ executions[e].workflow_id = response.id
               /\ response.body.dict.id = Num(e)
    /\ \A r \in DOMAIN runs :
           runs[r].pc = "queued" =>
               /\ runs[r].eid \in DOMAIN executions
               /\ executions[runs[r].eid].status = "pending"


ModeOf(background) == IF background THEN "background" ELSE "sync"

\* One workflow of the caller, active or not
InitModes ==
    /\ \E task_list \in PairTaskLists, is_active \in BOOLEAN :
           /\ workflows = [id \in {1} |-> WorkflowRow(TEMP_USER_ID, is_active)]
           /\ tasks = {TaskRow(1, i, task_list[i]) : i \in DOMAIN task_list}
    /\ executions = EmptyMap
    /\ runs = <<>>
    /\ exIssued = 0
    /\ now = 0
    /\ response = NoResponse

\* The workflow is executed once synchronously and once in the background,
\* with the same input
DispatchBoth ==
    \E background \in BOOLEAN, input_data \in Inputs :
        /\ \A r \in DOMAIN runs :
               runs[r].mode # ModeOf(background) /\ runs[r].input_data = input_data
        /\ Dispatch(1, background, input_data, 2)

NextModes ==
    \/ DispatchBoth
    \/ \E r \in DOMAIN runs : Step(r)

SpecModes == InitModes /\ [][NextModes]_vars

\* The answers of the network to the requests of a run
Nets(run) == [k \in DOMAIN run.requests |-> run.requests[k].net]

----------------------------------------------------------------------------
(* The transform executor *)

\* C19: a transform task whose operation is uppercase or lowercase returns
\* success false with an error string when the source value is not a
\* string, and otherwise success true with the transformed string under
\* target_field (result when there is none)
C19_TransformFailsOnWrongType ==
    \A r \in DOMAIN runs :
        LET run == runs[r]
        IN  \A pos \in 1..Len(run.outs) :
                LET task == run.sorted_tasks[pos]
                    config == task.configuration.dict
                    source == GetOr(OwnContext(run, pos - 1), config.source_field.str[1], EmptyDict)
                    key == IF "target_field" \in DOMAIN config
                           THEN config.target_field.str[1] ELSE "result"
                IN  ( /\ task.type = "transform"
                      /\ config.operation \in {Str("uppercase"), Str("lowercase")} ) =>
                        /\ ~run.outs[pos].raised
                        /\ IF IsStr(source)
                           THEN /\ run.outs[pos].value.dict.success = Bool(TRUE)
                                /\ run.outs[pos].value.dict[key] =
                                       IF config.operation = Str("uppercase")
                                       THEN Upper(source) ELSE Lower(source)
                           ELSE /\ run.outs[pos].value.dict.success = Bool(FALSE)
                                /\ "error" \in DOMAIN run.outs[pos].value.dict

----------------------------------------------------------------------------
(* The timeout of an HTTP request *)

\* C20: every request a run of a created workflow sends has the timeout of
\* its task's configuration, 30 when there is none, and the timeout is a
\* number of seconds from 1 to 300
C20_TimeoutWithinRange ==
    \A r \in DOMAIN runs :
        \A k \in DOMAIN runs[r].requests :
            LET config == runs[r].sorted_tasks[runs[r].requests[k].pos].configuration.dict
                timeout == runs[r].requests[k].request.timeout
            IN  /\ timeout = IF "timeout" \in DOMAIN config THEN config.timeout ELSE Num(30)
                /\ IsInt(timeout)
                /\ 1 <= timeout.int /\ timeout.int <= 300

----------------------------------------------------------------------------
(* The context *)

\* The context made of the input and of the results of the tasks before
\* position k whose executor returned, each under its task's name (the
\* latest of a name, if several)
ThreadedContext(run, k) ==
    LET returned(name) == {i \in 1..(k - 1) :
                              run.sorted_tasks[i].name = name /\ ~run.outs[i].raised}
        names == {run.sorted_tasks[i].name : i \in {j \in 1..(k - 1) : ~run.outs[j].raised}}
    IN  [name \in {"input"} \cup names |->
            IF returned(name) # {} THEN run.outs[Max(returned(name))].value
            ELSE OrElse(run.input_data, EmptyDict)]

\* C21: the context handed to the task at position k is the key input plus
\* the results of the tasks before k whose executor returned, under their
\* names; a task that returns adds its result to the context and to the
\* result map, a task that raises adds its failure to the result map and
\* leaves the context as it was
C21_ContextThreading ==
    [][\A r \in DOMAIN runs :
           LET run == runs[r]
               after == runs'[r]
               k == Len(run.outs) + 1
           IN  (run.pc \in {"loop", "exec"} /\ Len(after.outs) = k) =>
                   LET name == run.sorted_tasks[k].name
                       out == after.outs[k]
                   IN  /\ run.context = ThreadedContext(run, k)
                       /\ IF out.raised
                          THEN /\ after.context = run.context
                               /\ after.task_results =
                                      Put(run.task_results, name, Failure(out.error))
                          ELSE /\ after.context = Put(run.context, name, out.value)
                               /\ after.task_results =
                                      Put(run.task_results, name, out.value)]_vars

\* C21 witness: the third task of a run is handed a context with the result
\* of the first task and without the second, which raised
C21_Witness ==
    \E r \in DOMAIN runs :
        /\ runs[r].pc = "exec"
        /\ runs[r].idx = 3
        /\ ~runs[r].outs[1].raised
        /\ runs[r].outs[2].raised
        /\ DOMAIN runs[r].context = {"input", runs[r].sorted_tasks[1].name}
        /\ runs[r].sorted_tasks[2].name \in DOMAIN runs[r].task_results


\* C22: throughout a run, and in the context stored on its record, the key
\* input holds the input data of the request (the empty map when there is
\* none), whatever the names of the tasks
C22_InputKeyIsTheInput ==
    \A r \in DOMAIN runs :
        LET run == runs[r]
        IN  /\ run.pc \in {"loop", "exec", "done"} =>
                   /\ "input" \in DOMAIN run.context
                   /\ run.context["input"] = OrElse(run.input_data, EmptyDict)
            /\ ( /\ run.eid \in DOMAIN executions
                 /\ executions[run.eid].status = "completed" ) =>
                   executions[run.eid].result.dict.context.dict.input
                       = OrElse(run.input_data, EmptyDict)

----------------------------------------------------------------------------
(* The fields of a record *)

\* C23: in every state the fields of a record agree with its status.
\* running: no completed_at, execution_time or error_message, result empty.
\* completed: completed_at and execution_time set, no error_message, result
\* with tasks and context.  failed: completed_at, execution_time and
\* error_message set, result empty, and no task of the run was invoked.
C23_FieldsAgreeWithStatus ==
    \A e \in DOMAIN executions :
        LET row == executions[e]
        IN  /\ row.status \in {"running", "completed", "failed"}
            /\ IsInt(row.started_at)
            /\ row.status = "running" =>
                   /\ IsNone(row.completed_at)
                   /\ IsNone(row.execution_time)
                   /\ IsNone(row.error_message)
                   /\ row.result = EmptyDict
            /\ row.status = "completed" =>
                   /\ IsInt(row.completed_at)
                   /\ IsInt(row.execution_time)
                   /\ IsNone(row.error_message)
                   /\ IsDict(row.result)
                   /\ DOMAIN row.result.dict = {"tasks", "context"}
            /\ row.status = "failed" =>
                   /\ IsInt(row.completed_at)
                   /\ IsInt(row.execution_time)
                   /\ IsStr(row.error_message)
                   /\ row.result = EmptyDict
                   /\ \E r \in DOMAIN runs :
                          /\ runs[r].eid = e
                          /\ runs[r].log = <<>>
                          /\ runs[r].outs = <<>>
                          /\ runs[r].requests = <<>>

\* C23 witness: the job of a background dispatch found its workflow
\* inactive and left a failed record
C23_Witness ==
    \E r \in DOMAIN runs :
        /\ runs[r].mode = "background"
        /\ runs[r].eid \in DOMAIN executions
        /\ executions[runs[r].eid].status = "failed"
        /\ IsStr(executions[runs[r].eid].error_message)
        /\ executions[runs[r].eid].result = EmptyDict

----------------------------------------------------------------------------
(* The entries of the result map *)

\* C24: every entry of the result map stored on a completed record is a
\* dict with the key success, and the value of success is a boolean
C24_SuccessIsBoolean ==
    \A e \in DOMAIN executions :
        executions[e].status = "completed" =>
            LET task_results == executions[e].result.dict.tasks.dict
            IN  \A name \in DOMAIN task_results :
                    /\ IsDict(task_results[name])
                    /\ "success" \in DOMAIN task_results[name].dict
                    /\ IsBool(task_results[name].dict.success)

----------------------------------------------------------------------------
(* Progress *)

\* The system without the death of the process
NextLive ==
    \/ \E id \in WorkflowIds : GetWorkflow(id)
    \/ \E id \in WorkflowIds, is_active \in BOOLEAN : UpdateWorkflow(id, is_active)
    \/ \E id \in WorkflowIds : DeleteWorkflow(id)
    \/ \E id \in WorkflowIds, background \in BOOLEAN, input_data \in ApiInputs :
           ExecuteWorkflow(id, background, input_data)
    \/ \E r \in DOMAIN runs : Step(r)
    \/ Tick

\* Every awaited call of a run returns or raises in the end: the event loop
\* and the worker go on with each run that can go on
SpecLive ==
    /\ Init
    /\ [][NextLive]_vars
    /\ \A r \in 1..MaxRuns : WF_vars(r \in DOMAIN runs /\ Step(r))

RecordRunning(r) ==
    /\ r \in DOMAIN runs
    /\ runs[r].eid \in DOMAIN executions
    /\ executions[runs[r].eid].status = "running"

RecordTerminal(r) ==
    /\ r \in DOMAIN runs
    /\ runs[r].eid \in DOMAIN executions
    /\ executions[runs[r].eid].status \in Terminal

\* The caller of the synchronous run r is answered with the terminal record
Received(r) ==
    /\ RecordTerminal(r)
    /\ response = Response(200, "execution", runs[r].workflow_id,
                           ExecutionView(runs[r].eid, executions[runs[r].eid]))

\* The workflow of run r has been deleted
WorkflowDeleted(r) == r \in DOMAIN runs /\ runs[r].workflow_id \notin DOMAIN workflows

\* C25: with executors that return or raise and a process that does not
\* die, every record created running becomes completed or failed, and the
\* caller of a synchronous run is answered with that record
C25_EveryRunEnds ==
    \A r \in 1..MaxRuns :
        /\ RecordRunning(r) ~> RecordTerminal(r)
        /\ (RecordRunning(r) /\ runs[r].mode = "sync") ~> Received(r)

\* What holds of every run: its record ends and its caller is answered,
\* unless the workflow of the run is deleted while the run is in flight
EveryRunEndsUnlessDeleted ==
    \A r \in 1..MaxRuns :
        /\ RecordRunning(r) ~> (RecordTerminal(r) \/ WorkflowDeleted(r))
        /\ (RecordRunning(r) /\ runs[r].mode = "sync")
               ~> (Received(r) \/ WorkflowDeleted(r))

====
